---- MODULE Spec2Model ----
(***************************************************************************)
(* Model of src/app.py: the KMZ/KML -> CSV converter.                      *)
(*                                                                         *)
(* Coordinates are integers in micro-degrees (1e-6 degree).  A cache key   *)
(* is the pair of the two "%.5f" strings; a string is modelled by its sign *)
(* character and its magnitude in units of 1e-5 degree.  The raw_json      *)
(* column, the ExtendedData attributes and the CSV column ordering are     *)
(* left out: no property below reads them.                                 *)
(***************************************************************************)
EXTENDS Integers, Sequences, FiniteSets, TLC

\* ------------------------------------------------------------------ bounds
\* handlers that can be in flight together
NumReqs == 2
\* worker processes serving the app
NumWorkers == 2
\* requests received in one run
MaxConversions == 2

Reqs == 1..NumReqs
Workers == 1..NumWorkers
\* The worker processes are alike: whichever serve the requests, up to their
\* names request r is served by one of the first r of them.
WorkersFor(r) == {w \in Workers : w <= r}

\* ------------------------------------------------------------------ values
Null == "None"
Num(n) == [ok |-> TRUE, v |-> n]  \* a field float() accepts
Bad == [ok |-> FALSE, v |-> 0]    \* a field float() rejects
Raise == [exc |-> TRUE]          \* a function call ended by an exception
UNKNOWN_BOUNDARY == "UNKNOWN_BOUNDARY"

Abs(x) == IF x < 0 THEN -x ELSE x
Min(a, b) == IF a < b THEN a ELSE b
Max(a, b) == IF a < b THEN b ELSE a

\* ------------------------------------------------------------------ parsing
\* A coordinates text is [el, tokens]: el tells whether the coordinates
\* element exists, tokens are its whitespace separated tokens; a token is the
\* sequence of its comma separated fields; a field is Num(n) or Bad.

\* coords_el is None or not (coords_el.text or "").strip()
IsBlank(text) == ~text.el \/ Len(text.tokens) = 0

\* lon, lat, *_ = token.split(","); float(lon), float(lat)
TokenOk(fields) == Len(fields) >= 2 /\ fields[1].ok /\ fields[2].ok

TokenXY(fields) == <<fields[1].v, fields[2].v>>

\* Polygon(coords): shapely rejects a ring of one or two coordinates
RingOk(tokens) == (\A i \in 1..Len(tokens) : TokenOk(tokens[i])) /\ Len(tokens) >= 3

Ring(tokens) == [i \in 1..Len(tokens) |-> TokenXY(tokens[i])]

\* coords_el.text.strip().split(","): the text of a Point is split on
\* commas only, so the last field of a token and the first field of the next
\* one come out as one field holding a blank, which float() rejects.
RECURSIVE SplitComma(_)
SplitComma(tokens) ==
  IF Len(tokens) = 1 THEN tokens[1]
  ELSE LET t == tokens[1]
           rest == SplitComma(Tail(tokens))
       IN  SubSeq(t, 1, Len(t) - 1) \o <<Bad>> \o Tail(rest)

Ok(v) == [exc |-> FALSE, val |-> v]

\* A document tree is the sequence of its Placemark elements, each
\* [name, geom, text]: name is the text of kml:name or Null, geom is
\* "Polygon", "Point" or "Other", text is the coordinates text of that geometry.

RECURSIVE PolygonsFrom(_, _, _)
PolygonsFrom(root, i, polygons) ==
  IF i > Len(root) THEN Ok(polygons)
  ELSE LET pm == root[i]
           bname == IF pm.name # Null THEN pm.name ELSE UNKNOWN_BOUNDARY
       IN  IF pm.geom # "Polygon" THEN PolygonsFrom(root, i + 1, polygons)
           ELSE IF IsBlank(pm.text) THEN PolygonsFrom(root, i + 1, polygons)
           ELSE IF ~RingOk(pm.text.tokens) THEN Raise
           ELSE PolygonsFrom(root, i + 1,
                  Append(polygons, [bname |-> bname, poly |-> Ring(pm.text.tokens)]))

parse_polygons(root) == PolygonsFrom(root, 1, <<>>)

RECURSIVE PointsFrom(_, _, _)
PointsFrom(root, i, rows) ==
  IF i > Len(root) THEN Ok(rows)
  ELSE LET pm == root[i]
       IN  IF pm.geom # "Point" THEN PointsFrom(root, i + 1, rows)
           ELSE IF IsBlank(pm.text) THEN PointsFrom(root, i + 1, rows)
           ELSE IF ~TokenOk(SplitComma(pm.text.tokens)) THEN Raise
           ELSE LET f == SplitComma(pm.text.tokens)
                IN  PointsFrom(root, i + 1,
                      Append(rows, [homepass |-> pm.name, lat |-> f[2].v, lon |-> f[1].v]))

parse_points(root) == PointsFrom(root, 1, <<>>)

\* ------------------------------------------------------------------ geometry
\* shapely on a simple ring: contains is the strict interior, touches (of a
\* point) is the boundary.  A vertex is <<lon, lat>>.

Edges(poly) == [i \in 1..Len(poly) |-> <<poly[i], poly[(i % Len(poly)) + 1]>>]

OnSegment(p, a, b) ==
  /\ (b[1] - a[1]) * (p[2] - a[2]) = (b[2] - a[2]) * (p[1] - a[1])
  /\ Min(a[1], b[1]) <= p[1] /\ p[1] <= Max(a[1], b[1])
  /\ Min(a[2], b[2]) <= p[2] /\ p[2] <= Max(a[2], b[2])

\* the edge a-b crosses the ray from p towards larger lon
CrossesRay(p, a, b) ==
  /\ (a[2] > p[2]) # (b[2] > p[2])
  /\ IF b[2] > a[2]
     THEN (p[1] - a[1]) * (b[2] - a[2]) < (p[2] - a[2]) * (b[1] - a[1])
     ELSE (p[1] - a[1]) * (b[2] - a[2]) > (p[2] - a[2]) * (b[1] - a[1])

touches(poly, p) ==
  \E i \in 1..Len(poly) : OnSegment(p, Edges(poly)[i][1], Edges(poly)[i][2])

contains(poly, p) ==
  /\ ~touches(poly, p)
  /\ Cardinality({i \in 1..Len(poly) :
        CrossesRay(p, Edges(poly)[i][1], Edges(poly)[i][2])}) % 2 = 1

\* the rule without touches: a point on the edge is outside
MatchesInterior(poly, p) == contains(poly, p)

Matches(poly, p) == contains(poly, p) \/ touches(poly, p)

RECURSIVE BoundaryFrom(_, _, _)
BoundaryFrom(p, polygons, i) ==
  IF i > Len(polygons) THEN Null
  ELSE IF Matches(polygons[i].poly, p) THEN polygons[i].bname
  ELSE BoundaryFrom(p, polygons, i + 1)

assign_boundary(lat, lon, polygons) == BoundaryFrom(<<lon, lat>>, polygons, 1)

\* ------------------------------------------------------------------ cache key
\* f"{x:.5f}": the sign is kept even when the magnitude rounds to zero
\* ("-0.00000" and "0.00000" are different strings).  The inputs of the model
\* are never an exact tie (a last digit 5), where the binary float decides.
\* the key without rounding: the coordinate as it is
Fmt5Exact(x) == [sign |-> IF x < 0 THEN "-" ELSE "", mag |-> Abs(x)]

Fmt5(x) == [sign |-> IF x < 0 THEN "-" ELSE "", mag |-> (Abs(x) + 5) \div 10]

Key(lat, lon) == <<Fmt5(lat), Fmt5(lon)>>

\* ------------------------------------------------------------------ upload
\* extract_kml_bytes and etree.fromstring on an upload
\* [suffix, hasKml, wellFormed, tree]
extract_kml_bytes(up) ==
  IF up.suffix = "kml" THEN Ok(up)
  ELSE IF up.suffix = "kmz"
       THEN IF ~up.hasKml THEN Raise ELSE Ok(up)
  ELSE Raise

\* ------------------------------------------------------------------ service
\* What one call of requests.get / raise_for_status / r.json() can meet.
\* A JSON body is [object, address, road, residential, pedestrian]: object
\* tells whether it is a JSON object, address whether it holds "address".
Absent == "absent"
Body(object, address, road, residential, pedestrian) ==
  [object |-> object, address |-> address, road |-> road,
   residential |-> residential, pedestrian |-> pedestrian]

Bodies ==
  { Body(TRUE, TRUE, "Jl A", Absent, Absent),
    Body(TRUE, TRUE, Absent, "Jl B", "Jl C"),
    Body(TRUE, FALSE, Absent, Absent, Absent),
    Body(FALSE, FALSE, Absent, Absent, Absent) }

NoBody == Body(FALSE, FALSE, Absent, Absent, Absent)
Resp(kind, body) == [kind |-> kind, body |-> body]

Responses ==
  { Resp("neterr", NoBody), Resp("status", NoBody), Resp("undecodable", NoBody) }
    \cup { Resp("json", b) : b \in Bodies }

\* network failure, non-2xx status, or a body that is not JSON
IsFailure(resp) == resp.kind \in {"neterr", "status", "undecodable"}

Falsy(v) == v \in {Absent, ""}
Get(v) == IF v = Absent THEN Null ELSE v

\* a call that swallows its failure and resolves it to no road
ResolveLenient(resp) ==
  IF resp.kind # "json" \/ ~resp.body.object THEN Ok(Null)
  ELSE Ok(IF resp.body.address /\ ~Falsy(resp.body.road) THEN resp.body.road ELSE Null)

\* lines 141-145: Raise, or Ok(road)
Resolve(resp) ==
  IF resp.kind # "json" THEN Raise
  ELSE IF ~resp.body.object THEN Raise
  ELSE LET j == resp.body
           road == IF j.address THEN j.road ELSE Absent
           residential == IF j.address THEN j.residential ELSE Absent
           pedestrian == IF j.address THEN j.pedestrian ELSE Absent
       IN  Ok(IF ~Falsy(road) THEN road
              ELSE IF ~Falsy(residential) THEN residential
              ELSE Get(pedestrian))

\* ------------------------------------------------------------------ cache store
\* The geocache table is a set of rows; PRIMARY KEY (lat_round, lon_round).
Row(k, road) == [lat_round |-> k[1], lon_round |-> k[2], road |-> road]

RowsOf(table, k) == {row \in table : row.lat_round = k[1] /\ row.lon_round = k[2]}

\* a plain INSERT into a table without the primary key
InsertPlain(table, k, road) == table \cup {Row(k, road)}

\* INSERT OR REPLACE: the rows in conflict on the primary key are deleted
InsertOrReplace(table, k, road) == (table \ RowsOf(table, k)) \cup {Row(k, road)}

\* a fetch that takes a row holding no road for no row
fetchoneTruthy(table, k) ==
  IF {row \in RowsOf(table, k) : row.road # Null} = {} THEN <<>>
  ELSE <<CHOOSE row \in RowsOf(table, k) : row.road # Null>>

\* SELECT road ... ; fetchone(): <<row>>, or <<>> for None
fetchone(table, k) ==
  IF RowsOf(table, k) = {} THEN <<>> ELSE <<CHOOSE row \in RowsOf(table, k) : TRUE>>

\* ------------------------------------------------------------------ uploads
Nums(t) == [i \in 1..Len(t) |-> Num(t[i])]
Text(ts) == [el |-> TRUE, tokens |-> [i \in 1..Len(ts) |-> Nums(ts[i])]]
NoText == [el |-> FALSE, tokens |-> <<>>]

PolyA == << <<0, 0>>, <<20, 0>>, <<20, 20>>, <<0, 20>> >>
PolyB == << <<10, 0>>, <<30, 0>>, <<30, 20>>, <<10, 20>> >>

Pm(name, geom, text) == [name |-> name, geom |-> geom, text |-> text]

Trees ==
  { << Pm("A", "Polygon", Text(PolyA)), Pm("B", "Polygon", Text(PolyB)),
       Pm("h1", "Point", Text(<< <<12, 12>> >>)),
       Pm("h2", "Point", Text(<< <<14, 8, 0>> >>)),
       Pm(Null, "Point", Text(<< <<34, 12>> >>)) >>,
    << Pm("B", "Polygon", Text(PolyB)), Pm("A", "Polygon", Text(PolyA)) >>,
    << Pm("A", "Polygon",
          [el |-> TRUE, tokens |-> << <<Num(0), Num(0)>>, <<Num(20), Bad>>,
                                      <<Num(20), Num(20)>> >>]),
       Pm("h1", "Point", Text(<< <<12, 12>> >>)) >>,
    << Pm("A", "Polygon", Text(<< <<0, 0>>, <<20, 0>> >>)) >>,
    << Pm("A", "Polygon", Text(PolyA)), Pm("h1", "Point", Text(<< <<12>> >>)),
       Pm("h2", "Point", Text(<< <<12, 12>> >>)) >>,
    << Pm("A", "Polygon", Text(<<>>)), Pm("h1", "Point", NoText),
       Pm("x", "Other", NoText), Pm(Null, "Polygon", Text(PolyB)),
       Pm("h2", "Point", Text(<< <<30, 8, 0>> >>)) >>,
    << Pm("h1", "Point", Text(<< <<2, -2>> >>)),
       Pm("h2", "Point", Text(<< <<2, 2>> >>)) >> }

Upload(suffix, hasKml, wellFormed, tree) ==
  [suffix |-> suffix, hasKml |-> hasKml, wellFormed |-> wellFormed, tree |-> tree]

Uploads ==
  { Upload("kml", TRUE, TRUE, t) : t \in Trees }
    \cup { Upload("kmz", FALSE, TRUE, <<>>), Upload("txt", TRUE, TRUE, <<>>),
           Upload("kmz", TRUE, FALSE, <<>>) }

\* ------------------------------------------------------------------ state
VARIABLES
  cache,      \* the geocache table: a set of rows
  dbLock,     \* the request whose connection holds the write lock, or 0
  loop,       \* per worker process: the request its event loop is running, or 0
  pc,         \* per request: where its handler stands
  worker,     \* per request: the worker process that serves it
  upload,     \* per request: the uploaded file
  flag,       \* per request: with_geocode is not None
  polygons,   \* per request: parse_polygons(root)
  points,     \* per request: parse_points(root)
  boundary,   \* per request: df["boundary"]
  streets,    \* per request: the list streets
  idx,        \* per request: the row the loop over df.iterrows() stands at
  road,       \* per request: the local road of the running lookup
  conOpen,    \* per request: the lookup holds an open sqlite3 connection
  geoRet,     \* per request: how the last lookup ended (Ok(road) or Raise)
  result,     \* per request: the response
  extCalls,   \* history: external requests issued
  sleeps,     \* history: throttle sleeps finished
  owed,       \* history, per request: an external call with no sleep after it
  unthrottled,\* history: an external call was issued while one was owed
  looked,     \* history: the coordinates <<lat, lon>> of the lookups started
  lastWrite,  \* history: per key written, the road of the last upsert
  failed,     \* history: some lookup ended by an exception
  overlap,    \* history: two lookups ran at the same time
  rets,       \* history, per request: how each lookup ended
  lastResp,   \* history, per request: the response the running lookup got
  how,        \* history, per request: "hit", "miss" or "raise" for the last lookup
  assigned,   \* history, per request: calls of assign_boundary
  arrived,    \* history: requests received
  aArg,       \* assign_boundary alone: its arguments [lat, lon, polygons]
  aRet,       \* assign_boundary alone: its result, or Pending
  aSwap       \* assign_boundary alone: its result on the reversed list, or Pending

vars == <<cache, dbLock, loop, pc, worker, upload, flag, polygons, points,
          boundary, streets, idx, road, conOpen, geoRet, result, extCalls, sleeps,
          owed, unthrottled, looked, lastWrite, failed, overlap, rets, lastResp, how,
          assigned, arrived, aArg, aRet, aSwap>>

local == <<worker, upload, flag, polygons, points, boundary, streets, idx, road,
           conOpen, geoRet, result>>
history == <<extCalls, sleeps, owed, unthrottled, looked, lastWrite, failed,
             overlap, rets, lastResp, how, assigned>>
alone == <<aArg, aRet, aSwap>>

NoUpload == Upload("", FALSE, FALSE, <<>>)
NoResp == Resp("", NoBody)
NoResult == [status |-> "", detail |-> "", rows |-> <<>>]
Rejected(status, detail) == [status |-> status, detail |-> detail, rows |-> <<>>]

Pending == "pending"
NoArg == [lat |-> 0, lon |-> 0, polygons |-> <<>>]

\* cache_init() (lines 27-38): the table exists and is empty on first start
InitApp ==
  /\ cache = {}
  /\ dbLock = 0
  /\ loop = [w \in Workers |-> 0]
  /\ pc = [r \in Reqs |-> "idle"]
  /\ worker = [r \in Reqs |-> 1]
  /\ upload = [r \in Reqs |-> NoUpload]
  /\ flag = [r \in Reqs |-> FALSE]
  /\ polygons = [r \in Reqs |-> <<>>]
  /\ points = [r \in Reqs |-> <<>>]
  /\ boundary = [r \in Reqs |-> <<>>]
  /\ streets = [r \in Reqs |-> <<>>]
  /\ idx = [r \in Reqs |-> 1]
  /\ road = [r \in Reqs |-> Null]
  /\ conOpen = [r \in Reqs |-> FALSE]
  /\ geoRet = [r \in Reqs |-> Ok(Null)]
  /\ result = [r \in Reqs |-> NoResult]
  /\ extCalls = 0
  /\ sleeps = 0
  /\ owed = [r \in Reqs |-> FALSE]
  /\ unthrottled = FALSE
  /\ looked = {}
  /\ lastWrite = <<>>
  /\ failed = FALSE
  /\ overlap = FALSE
  /\ rets = [r \in Reqs |-> <<>>]
  /\ lastResp = [r \in Reqs |-> NoResp]
  /\ how = [r \in Reqs |-> ""]
  /\ assigned = [r \in Reqs |-> 0]
  /\ arrived = 0

Init ==
  /\ InitApp
  /\ aArg = NoArg
  /\ aRet = Pending
  /\ aSwap = Pending

\* the point the geocode loop of r stands at, and its cache key
Cur(r) == points[r][idx[r]]
CurKey(r) == Key(Cur(r).lat, Cur(r).lon)

InLookup(q) == pc[q] \in {"http", "wait", "insert", "commit", "sleep"}

\* the handler of r ends: the response is sent and its event loop is free
End(r, res) ==
  /\ pc' = [pc EXCEPT ![r] = "done"]
  /\ result' = [result EXCEPT ![r] = res]
  /\ loop' = [loop EXCEPT ![worker[r]] = 0]

\* ------------------------------------------------------------------ convert
\* a POST /convert reaches a worker; the handler awaits file.read() (line 165).
\* Nothing of an earlier request of the slot is left but the cache.
Arrive(r, up, g, w) ==
  /\ pc[r] \in {"idle", "done"}
  /\ arrived < MaxConversions
  /\ arrived' = arrived + 1
  /\ pc' = [pc EXCEPT ![r] = "read"]
  /\ upload' = [upload EXCEPT ![r] = up]
  /\ flag' = [flag EXCEPT ![r] = g]
  /\ worker' = [worker EXCEPT ![r] = w]
  /\ polygons' = [polygons EXCEPT ![r] = <<>>]
  /\ points' = [points EXCEPT ![r] = <<>>]
  /\ boundary' = [boundary EXCEPT ![r] = <<>>]
  /\ streets' = [streets EXCEPT ![r] = <<>>]
  /\ idx' = [idx EXCEPT ![r] = 1]
  /\ road' = [road EXCEPT ![r] = Null]
  /\ geoRet' = [geoRet EXCEPT ![r] = Ok(Null)]
  /\ result' = [result EXCEPT ![r] = NoResult]
  /\ owed' = [owed EXCEPT ![r] = FALSE]
  /\ rets' = [rets EXCEPT ![r] = <<>>]
  /\ assigned' = [assigned EXCEPT ![r] = 0]
  /\ UNCHANGED <<cache, dbLock, loop, conOpen, extCalls, sleeps, unthrottled,
                 looked, lastWrite, failed, overlap, lastResp, how, alone>>

\* lines 165-171: the event loop of the worker resumes the handler, which from
\* here to its end never awaits: it keeps the event loop
Resume(r) ==
  /\ pc[r] = "read"
  /\ loop[worker[r]] = 0
  /\ IF extract_kml_bytes(upload[r]).exc
     THEN /\ pc' = [pc EXCEPT ![r] = "done"]
          /\ result' = [result EXCEPT ![r] = Rejected("400", "container")]
          /\ loop' = loop
     ELSE IF ~upload[r].wellFormed
     THEN /\ pc' = [pc EXCEPT ![r] = "done"]
          /\ result' = [result EXCEPT ![r] = Rejected("400", "KML tidak valid")]
          /\ loop' = loop
     ELSE /\ pc' = [pc EXCEPT ![r] = "parse"]
          /\ loop' = [loop EXCEPT ![worker[r]] = r]
          /\ result' = result
  /\ UNCHANGED <<cache, dbLock, worker, upload, flag, polygons, points, boundary,
                 streets, idx, road, conOpen, geoRet, history>>
  /\ UNCHANGED <<arrived, alone>>

\* lines 173-177
Parse(r) ==
  /\ pc[r] = "parse"
  /\ LET pg == parse_polygons(upload[r].tree)
         pt == parse_points(upload[r].tree)
     IN  IF pg.exc \/ pt.exc
         THEN /\ End(r, Rejected("500", "ValueError"))
              /\ UNCHANGED <<polygons, points>>
         ELSE IF Len(pt.val) = 0
         THEN /\ End(r, Rejected("400", "Tidak ada titik"))
              /\ polygons' = [polygons EXCEPT ![r] = pg.val]
              /\ points' = points
         ELSE /\ pc' = [pc EXCEPT ![r] = "assign"]
              /\ polygons' = [polygons EXCEPT ![r] = pg.val]
              /\ points' = [points EXCEPT ![r] = pt.val]
              /\ UNCHANGED <<result, loop>>
  /\ UNCHANGED <<cache, dbLock, worker, upload, flag, boundary, streets, idx,
                 road, conOpen, geoRet, history>>
  /\ UNCHANGED <<arrived, alone>>

\* lines 179-183
Assign(r) ==
  /\ pc[r] = "assign"
  /\ boundary' = [boundary EXCEPT ![r] =
        [i \in 1..Len(points[r]) |->
           assign_boundary(points[r][i].lat, points[r][i].lon, polygons[r])]]
  /\ assigned' = [assigned EXCEPT ![r] = @ + Len(points[r])]
  /\ pc' = [pc EXCEPT ![r] = IF flag[r] THEN "select" ELSE "respond"]
  /\ UNCHANGED <<cache, dbLock, loop, worker, upload, flag, polygons, points,
                 streets, idx, road, conOpen, geoRet, result, extCalls, sleeps,
                 owed, unthrottled, looked, lastWrite, failed, overlap, rets,
                 lastResp, how>>
  /\ UNCHANGED <<arrived, alone>>

\* ------------------------------------------------------------------ reverse_geocode_nominatim_cached
\* the lookup of r ends: the call returns ret (or raises) to the loop of convert;
\* its frame, and the connection the frame refers to, are gone
Return(r, ret, way) ==
  /\ geoRet' = [geoRet EXCEPT ![r] = ret]
  /\ conOpen' = [conOpen EXCEPT ![r] = FALSE]
  /\ rets' = [rets EXCEPT ![r] = Append(@, ret)]
  /\ how' = [how EXCEPT ![r] = way]
  /\ failed' = (failed \/ ret.exc)
  /\ pc' = [pc EXCEPT ![r] = "append"]

\* lines 127-134: the key, the SELECT and, on a hit, the return.  Leaving the
\* with block commits; it does not close the connection.
GeoSelect(r) ==
  /\ pc[r] = "select"
  /\ looked' = looked \cup {<<Cur(r).lat, Cur(r).lon>>}
  /\ overlap' = (overlap \/ \E q \in Reqs \ {r} : InLookup(q))
  /\ LET row == fetchone(cache, CurKey(r))
     IN  IF Len(row) = 1
         THEN /\ Return(r, Ok(row[1].road), "hit")
         ELSE /\ pc' = [pc EXCEPT ![r] = "http"]
              /\ conOpen' = [conOpen EXCEPT ![r] = TRUE]
              /\ UNCHANGED <<geoRet, rets, how, failed>>
  /\ UNCHANGED <<cache, dbLock, loop, worker, upload, flag, polygons, points,
                 boundary, streets, idx, road, result, extCalls, sleeps, owed,
                 unthrottled, lastWrite, lastResp, assigned>>
  /\ UNCHANGED <<arrived, alone>>

\* lines 137-141: requests.get sends the request and blocks on the answer
HttpCall(r) ==
  /\ pc[r] = "http"
  /\ pc' = [pc EXCEPT ![r] = "wait"]
  /\ extCalls' = extCalls + 1
  /\ unthrottled' = (unthrottled \/ owed[r])
  /\ owed' = [owed EXCEPT ![r] = TRUE]
  /\ UNCHANGED <<cache, dbLock, loop, local, sleeps, looked, lastWrite, failed,
                 overlap, rets, lastResp, how, assigned>>
  /\ UNCHANGED <<arrived, alone>>

\* lines 141-145: the answer (or the timeout) arrives
HttpReturn(r, resp) ==
  /\ pc[r] = "wait"
  /\ lastResp' = [lastResp EXCEPT ![r] = resp]
  /\ IF Resolve(resp).exc
     THEN /\ Return(r, Raise, "raise")
          /\ road' = road
     ELSE /\ road' = [road EXCEPT ![r] = Resolve(resp).val]
          /\ pc' = [pc EXCEPT ![r] = "insert"]
          /\ UNCHANGED <<geoRet, conOpen, rets, how, failed>>
  /\ UNCHANGED <<cache, dbLock, loop, worker, upload, flag, polygons, points,
                 boundary, streets, idx, result, extCalls, sleeps, owed,
                 unthrottled, looked, lastWrite, overlap, assigned>>
  /\ UNCHANGED <<arrived, alone>>

\* lines 147-150: a second connection; the INSERT opens a transaction, which
\* takes the write lock of the database file
InsertExec(r) ==
  /\ pc[r] = "insert"
  /\ dbLock = 0
  /\ dbLock' = r
  /\ pc' = [pc EXCEPT ![r] = "commit"]
  /\ UNCHANGED <<cache, loop, local, history>>
  /\ UNCHANGED <<arrived, alone>>

\* lines 147-150: the write lock stays with another connection for longer than
\* the busy timeout of sqlite3.connect: OperationalError
InsertBusy(r) ==
  /\ pc[r] = "insert"
  /\ dbLock \notin {0, r}
  /\ Return(r, Raise, "raise")
  /\ UNCHANGED <<cache, dbLock, loop, worker, upload, flag, polygons, points,
                 boundary, streets, idx, road, result, extCalls, sleeps, owed,
                 unthrottled, looked, lastWrite, overlap, lastResp, assigned>>
  /\ UNCHANGED <<arrived, alone>>

\* line 147/151: leaving the with block commits the INSERT OR REPLACE
Commit(r) ==
  /\ pc[r] = "commit"
  /\ cache' = InsertOrReplace(cache, CurKey(r), road[r])
  /\ lastWrite' = [k \in DOMAIN lastWrite \cup {CurKey(r)} |->
                      IF k = CurKey(r) THEN road[r] ELSE lastWrite[k]]
  /\ dbLock' = 0
  /\ pc' = [pc EXCEPT ![r] = "sleep"]
  /\ UNCHANGED <<loop, local, extCalls, sleeps, owed, unthrottled, looked, failed,
                 overlap, rets, lastResp, how, assigned>>
  /\ UNCHANGED <<arrived, alone>>

\* lines 153-154: time.sleep(NOMINATIM_THROTTLE_SEC) is over; return road
Throttle(r) ==
  /\ pc[r] = "sleep"
  /\ sleeps' = sleeps + 1
  /\ owed' = [owed EXCEPT ![r] = FALSE]
  /\ Return(r, Ok(road[r]), "miss")
  /\ UNCHANGED <<cache, dbLock, loop, worker, upload, flag, polygons, points,
                 boundary, streets, idx, road, result, extCalls, unthrottled,
                 looked, lastWrite, overlap, lastResp, assigned>>
  /\ UNCHANGED <<arrived, alone>>

\* ------------------------------------------------------------------ convert, the geocode loop
\* lines 185-190: try: streets.append(<lookup>) except Exception: streets.append(None)
\* except Exception: pass
AppendedPass(list, ret) == IF ret.exc THEN list ELSE Append(list, ret.val)

Appended(list, ret) == Append(list, IF ret.exc THEN Null ELSE ret.val)

LoopAppend(r) ==
  /\ pc[r] = "append"
  /\ streets' = [streets EXCEPT ![r] = Appended(@, geoRet[r])]
  /\ idx' = [idx EXCEPT ![r] = @ + 1]
  /\ pc' = [pc EXCEPT ![r] = IF idx[r] < Len(points[r]) THEN "select" ELSE "respond"]
  /\ lastResp' = [lastResp EXCEPT ![r] = NoResp]
  /\ how' = [how EXCEPT ![r] = ""]
  /\ UNCHANGED <<cache, dbLock, loop, worker, upload, flag, polygons, points,
                 boundary, road, conOpen, geoRet, result, extCalls, sleeps, owed,
                 unthrottled, looked, lastWrite, failed, overlap, rets, assigned>>
  /\ UNCHANGED <<arrived, alone>>

\* lines 193-202: one row per point; nama_jalan only with geocoding
Rows(r) ==
  [i \in 1..Len(points[r]) |->
     [homepass |-> points[r][i].homepass, lat |-> points[r][i].lat,
      lon |-> points[r][i].lon, boundary |-> boundary[r][i],
      nama_jalan |-> IF flag[r] THEN <<streets[r][i]>> ELSE <<>>]]

Respond(r) ==
  /\ pc[r] = "respond"
  /\ End(r, [status |-> "200", detail |-> "", rows |-> Rows(r)])
  /\ UNCHANGED <<cache, dbLock, worker, upload, flag, polygons, points, boundary,
                 streets, idx, road, conOpen, geoRet, history>>
  /\ UNCHANGED <<arrived, alone>>

\* ------------------------------------------------------------------ specification
Next ==
  \E r \in Reqs :
    \/ \E up \in Uploads, g \in BOOLEAN, w \in WorkersFor(r) : Arrive(r, up, g, w)
    \/ Resume(r)
    \/ Parse(r)
    \/ Assign(r)
    \/ GeoSelect(r)
    \/ HttpCall(r)
    \/ \E resp \in Responses : HttpReturn(r, resp)
    \/ InsertExec(r)
    \/ InsertBusy(r)
    \/ Commit(r)
    \/ Throttle(r)
    \/ LoopAppend(r)
    \/ Respond(r)

Spec == Init /\ [][Next]_vars

\* One handler at a time: the requests of one client, each sent after the
\* answer to the one before, to one worker process.
First == CHOOSE r \in Reqs : \A q \in Reqs : r <= q
FirstWorker == CHOOSE w \in Workers : \A v \in Workers : w <= v

NextSeq ==
  \/ \E up \in Uploads, g \in BOOLEAN : Arrive(First, up, g, FirstWorker)
  \/ Resume(First)
  \/ Parse(First)
  \/ Assign(First)
  \/ GeoSelect(First)
  \/ HttpCall(First)
  \/ \E resp \in Responses : HttpReturn(First, resp)
  \/ InsertExec(First)
  \/ Commit(First)
  \/ Throttle(First)
  \/ LoopAppend(First)
  \/ Respond(First)

SpecSeq == Init /\ [][NextSeq]_vars

\* Handlers in flight together, each geocoding one point; the service
\* answers with an error status or with one of two roads.
ConcUploads ==
  { Upload("kml", TRUE, TRUE, << Pm("h1", "Point", Text(<< <<12, 12>> >>)) >>),
    Upload("kml", TRUE, TRUE, << Pm("h2", "Point", Text(<< <<34, 12>> >>)) >>) }

ConcResponses ==
  { Resp("status", NoBody),
    Resp("json", Body(TRUE, TRUE, "Jl A", Absent, Absent)),
    Resp("json", Body(TRUE, TRUE, Absent, "Jl B", "Jl C")) }

NextConc ==
  \E r \in Reqs :
    \/ \E up \in ConcUploads, w \in WorkersFor(r) : Arrive(r, up, TRUE, w)
    \/ Resume(r)
    \/ Parse(r)
    \/ Assign(r)
    \/ GeoSelect(r)
    \/ HttpCall(r)
    \/ \E resp \in ConcResponses : HttpReturn(r, resp)
    \/ InsertExec(r)
    \/ InsertBusy(r)
    \/ Commit(r)
    \/ Throttle(r)
    \/ LoopAppend(r)
    \/ Respond(r)

SpecConc == Init /\ [][NextConc]_vars

\* ------------------------------------------------------------------ assign_boundary alone
\* The inputs: points of a grid, lists of distinct named rings.
MaxPolys == 2
GridStep == 5
GridMax == 8

Grid == {GridStep * n : n \in 0..GridMax}

Shapes ==
  { [bname |-> "A", poly |-> PolyA],
    [bname |-> "B", poly |-> PolyB],
    [bname |-> "L", poly |-> << <<0, 0>>, <<40, 0>>, <<40, 10>>, <<10, 10>>,
                                <<10, 40>>, <<0, 40>> >>],
    [bname |-> "T", poly |-> << <<20, 20>>, <<40, 20>>, <<40, 40>>, <<20, 20>> >>] }

RECURSIVE Lists(_)
Lists(n) ==
  IF n = 0 THEN { <<>> }
  ELSE Lists(n - 1) \cup
       { Append(l, sh) : l \in {m \in Lists(n - 1) : Len(m) = n - 1},
                         sh \in Shapes }

Distinct(l) == \A i, j \in 1..Len(l) : i # j => l[i] # l[j]

Args ==
  { [lat |-> y, lon |-> x, polygons |-> l] :
      y \in Grid, x \in Grid, l \in {m \in Lists(MaxPolys) : Distinct(m)} }

Reverse(l) == [i \in 1..Len(l) |-> l[Len(l) + 1 - i]]

InitAssign ==
  /\ InitApp
  /\ aArg \in Args
  /\ aRet = Pending
  /\ aSwap = Pending

CallAssign ==
  /\ aRet = Pending
  /\ aRet' = assign_boundary(aArg.lat, aArg.lon, aArg.polygons)
  /\ UNCHANGED <<aArg, aSwap, cache, dbLock, loop, pc, local, history, arrived>>

CallSwapped ==
  /\ aSwap = Pending
  /\ aSwap' = assign_boundary(aArg.lat, aArg.lon, Reverse(aArg.polygons))
  /\ UNCHANGED <<aArg, aRet, cache, dbLock, loop, pc, local, history, arrived>>

NextAssign == CallAssign \/ CallSwapped

SpecAssign == InitAssign /\ [][NextAssign]_vars

\* The region of each shape, written down from its picture: closed boxes and,
\* for T, the closed triangle under the diagonal.
InBox(x, y, x0, y0, x1, y1) == x0 <= x /\ x <= x1 /\ y0 <= y /\ y <= y1

InsideOrOn(bname, x, y) ==
  IF bname = "A" THEN InBox(x, y, 0, 0, 20, 20)
  ELSE IF bname = "B" THEN InBox(x, y, 10, 0, 30, 20)
  ELSE IF bname = "L" THEN InBox(x, y, 0, 0, 40, 10) \/ InBox(x, y, 0, 0, 10, 40)
  ELSE 20 <= y /\ y <= x /\ x <= 40

MatchAt(a) == {i \in 1..Len(a.polygons) : InsideOrOn(a.polygons[i].bname, a.lon, a.lat)}

FirstMatch(a) ==
  IF MatchAt(a) = {} THEN Null
  ELSE a.polygons[CHOOSE i \in MatchAt(a) : \A j \in MatchAt(a) : i <= j].bname

\* C5: assign_boundary returns the identifier of the first polygon, in input
\* order, that has the point inside or on its boundary, and null when none has
\* (an empty list included); for a point in the overlap of two polygons the
\* reversed list returns the other identifier.
C5_FirstMatch ==
  /\ aRet # Pending => aRet = FirstMatch(aArg)
  /\ (aRet # Pending /\ aSwap # Pending /\ Len(aArg.polygons) = 2
        /\ Cardinality(MatchAt(aArg)) = 2)
       => (aRet = aArg.polygons[1].bname /\ aSwap = aArg.polygons[2].bname)

C5_Witness ==
  /\ aRet = "B" /\ aSwap = "A"
  /\ Len(aArg.polygons) = 2
  /\ Cardinality(MatchAt(aArg)) = 2
  /\ aArg.lon = 10

\* ------------------------------------------------------------------ properties
Stored(k) == {row.road : row \in RowsOf(cache, k)}

\* C1: a lookup whose key is in the cache returns the stored road (a stored
\* null included), issues no external request, does not sleep and leaves the
\* cache as it was.
C1_CacheHit ==
  [][\A r \in Reqs :
       (pc[r] = "select" /\ pc'[r] # "select" /\ Stored(CurKey(r)) # {})
         => /\ pc'[r] = "append"
            /\ ~geoRet'[r].exc
            /\ geoRet'[r].val \in Stored(CurKey(r))
            /\ extCalls' = extCalls
            /\ sleeps' = sleeps
            /\ cache' = cache]_vars

C1_Witness ==
  \E r \in Reqs :
    /\ pc[r] = "append" /\ how[r] = "hit"
    /\ geoRet[r] = Ok(Null)
    /\ Stored(CurKey(r)) = {Null}

\* The 5-decimal string of a coordinate, written down from what rounding
\* means: the sign, and the multiple of 1e-5 nearest to the magnitude.
Nearest(x) == CHOOSE n \in 0..Abs(x) : 10 * n - 5 <= Abs(x) /\ Abs(x) < 10 * n + 5
Rounded(c) == << <<c[1] < 0, Nearest(c[1])>>, <<c[2] < 0, Nearest(c[2])>> >>

\* C2: in a sequential series of lookups from an empty cache in which no
\* lookup fails, the external calls are as many as the distinct rounded keys
\* looked up, and after a miss the cache holds the resolved road under the key.
C2_CallsPerKey ==
  (~overlap /\ ~failed) =>
    /\ extCalls + Cardinality({r \in Reqs : pc[r] = "http"})
         = Cardinality({Rounded(c) : c \in looked})
    /\ \A r \in Reqs : pc[r] = "sleep" => Stored(CurKey(r)) = {road[r]}

C2_Witness ==
  /\ ~overlap /\ ~failed
  /\ \E r \in Reqs : pc[r] = "done" /\ Len(streets[r]) = 3
  /\ Cardinality(looked) = 3
  /\ extCalls = 2

\* C3: a lookup that misses the cache and whose external call fails ends by
\* an exception and leaves the cache exactly as it was.
C3_FailureNotCached ==
  [][\A r \in Reqs :
       (pc[r] = "wait" /\ pc'[r] # "wait" /\ IsFailure(lastResp'[r]))
         => /\ pc'[r] = "append"
            /\ geoRet'[r].exc
            /\ cache' = cache]_vars

C3_Witness ==
  \E r \in Reqs :
    /\ pc[r] = "append" /\ how[r] = "raise"
    /\ IsFailure(lastResp[r])
    /\ Stored(CurKey(r)) = {}

\* C4: with geocoding, a lookup that fails never aborts the request: every
\* point is visited in order, a failed lookup gives null, any other gives its
\* own result, and the output has one row per point.
C4_NoAbort ==
  \A r \in Reqs :
    (flag[r] /\ Len(points[r]) > 0) =>
      /\ pc[r] \in {"select", "http", "wait", "insert", "commit", "sleep", "respond",
                    "done"} => Len(streets[r]) = idx[r] - 1
      /\ Len(rets[r]) = Len(streets[r]) + (IF pc[r] = "append" THEN 1 ELSE 0)
      /\ \A i \in 1..Len(streets[r]) :
           streets[r][i] = IF rets[r][i].exc THEN Null ELSE rets[r][i].val
      /\ pc[r] = "done" =>
           /\ result[r].status = "200"
           /\ Len(result[r].rows) = Len(points[r])
           /\ Len(streets[r]) = Len(points[r])
           /\ \A i \in 1..Len(points[r]) :
                /\ result[r].rows[i].nama_jalan = <<streets[r][i]>>
                /\ result[r].rows[i].lat = points[r][i].lat
                /\ result[r].rows[i].lon = points[r][i].lon

C4_Witness ==
  \E r \in Reqs :
    /\ pc[r] = "done" /\ flag[r]
    /\ Len(result[r].rows) = 3
    /\ rets[r][1].exc
    /\ ~rets[r][3].exc /\ streets[r][3] = "Jl A"

\* the placemarks of a tree that hold a point with a coordinate text
PointMarks(tree) ==
  {i \in 1..Len(tree) : tree[i].geom = "Point" /\ ~IsBlank(tree[i].text)}
Parses(up) == up.suffix \in {"kml", "kmz"} /\ up.hasKml /\ up.wellFormed

\* C6: a document that parses and holds no point ends in the "no points"
\* rejection, with or without the geocode flag, before any boundary
\* assignment, lookup, external call or cache write of that request.
C6_NoPoints ==
  \A r \in Reqs :
    (pc[r] = "done" /\ Parses(upload[r]) /\ PointMarks(upload[r].tree) = {})
      => /\ result[r] = Rejected("400", "Tidak ada titik")
         /\ assigned[r] = 0
         /\ rets[r] = <<>>

\* the placemarks of a tree whose coordinate text is not blank and not parsable
Malformed(tree) ==
  {i \in 1..Len(tree) :
     /\ ~IsBlank(tree[i].text)
     /\ \/ tree[i].geom = "Polygon" /\ ~RingOk(tree[i].text.tokens)
        \/ tree[i].geom = "Point" /\ ~TokenOk(SplitComma(tree[i].text.tokens))}

\* C7: a placemark whose coordinate text is not blank and cannot be parsed is
\* skipped: no error is raised and the conversion goes on with the others.
C7_MalformedSkipped ==
  \A r \in Reqs :
    (pc[r] = "done" /\ Parses(upload[r]) /\ Malformed(upload[r].tree) # {})
      => /\ result[r].status # "500"
         /\ PointMarks(upload[r].tree) \ Malformed(upload[r].tree) # {}
              => result[r].status = "200"

\* C8: no external call of a request is issued while the throttle sleep
\* after its previous external call has not taken place.
C8_Throttled == ~unthrottled

\* C9: in every reachable state the cache holds at most one row per key, the
\* row of a key is the one the last upsert of that key wrote, and no written
\* key is missing.
C9_OneRowPerKey ==
  /\ \A a, b \in cache :
       (a.lat_round = b.lat_round /\ a.lon_round = b.lon_round) => a = b
  /\ \A k \in DOMAIN lastWrite : RowsOf(cache, k) = {Row(k, lastWrite[k])}
  /\ \A a \in cache : <<a.lat_round, a.lon_round>> \in DOMAIN lastWrite

C9_Witness ==
  \E r, q \in Reqs :
    /\ r # q
    /\ pc[r] = "sleep" /\ pc[q] = "sleep"
    /\ CurKey(r) = CurKey(q)
    /\ road[r] # road[q]
    /\ Stored(CurKey(r)) = {road[q]}

\* the steps of the handler of q
Step(q) ==
  \/ Resume(q) \/ Parse(q) \/ Assign(q) \/ GeoSelect(q) \/ HttpCall(q)
  \/ \E resp \in Responses : HttpReturn(q, resp)
  \/ InsertExec(q) \/ InsertBusy(q) \/ Commit(q) \/ Throttle(q)
  \/ LoopAppend(q) \/ Respond(q)

\* C10: while a request waits on its external call or on its throttle sleep
\* it holds no cache connection and no lock, and every other request that has
\* work to do can take a step.
C10_OthersProgress ==
  \A r \in Reqs :
    pc[r] \in {"wait", "sleep"} =>
      /\ dbLock # r
      /\ \A q \in Reqs \ {r} : pc[q] \notin {"idle", "done"} => ENABLED Step(q)

\* the part of C10 about the connection: a waiting request holds none
NoConnectionWhileWaiting ==
  \A r \in Reqs : pc[r] \in {"wait", "sleep"} => ~conOpen[r]

\* what does hold of the waiting request: it has no lock, and the requests
\* of the other worker processes can take a step
OtherWorkersProgress ==
  \A r \in Reqs :
    pc[r] \in {"wait", "sleep"} =>
      /\ dbLock # r
      /\ \A q \in Reqs \ {r} :
           (pc[q] \notin {"idle", "done"} /\ worker[q] # worker[r]) => ENABLED Step(q)

\* what does hold of C6: the rejection, when no placemark is malformed
NoPointsWellFormed ==
  \A r \in Reqs :
    (pc[r] = "done" /\ Parses(upload[r]) /\ PointMarks(upload[r].tree) = {}
       /\ Malformed(upload[r].tree) = {})
      => /\ result[r] = Rejected("400", "Tidak ada titik")
         /\ assigned[r] = 0
         /\ rets[r] = <<>>

\* what does hold of C8: the sleep comes between two external calls of a
\* request when the first of them ended well
ThrottledAfterSuccess ==
  [][\A r \in Reqs :
       (pc[r] = "http" /\ pc'[r] = "wait" /\ owed[r])
         => \E i \in 1..Len(rets[r]) : rets[r][i].exc]_vars

====
